---- MODULE Spec2Model ----
(***************************************************************************)
(* A model of two kernels of the sprs sparse linear-algebra library:       *)
(*   - CsVec, the sparse vector container   (src/sparse/vec.rs)            *)
(*   - DStack, the fixed-capacity double stack   (src/stack.rs)            *)
(*                                                                         *)
(* Rust slices are 0-based; TLA+ sequences are 1-based.  A buffer is a     *)
(* sequence and slot i of the code is element i + 1 of the sequence (see   *)
(* At and Put).  The stored coordinates themselves keep their 0-based      *)
(* values.  Option<T> is a sequence of length 0 (None) or 1 (Some(x)).     *)
(* A panic (a failed assert!, an arithmetic overflow in a checked build,   *)
(* an out-of-range slice index, unreachable!()) unwinds the call: the      *)
(* fields are left as the code had written them when it panicked, the      *)
(* outcome of the call is "panic" and no further call is made on the       *)
(* object.                                                                 *)
(***************************************************************************)
EXTENDS Integers, Sequences, FiniteSets, TLC

\* ------------------------------------------------------------------ bounds
\* Largest declared dimension of a vector; coordinates range over 0..MaxDim
\* so that out-of-range coordinates (>= dim, and == dim) occur.
MaxDim == 2
\* Longest index / value sequence handed to a constructor.
MaxLen == 2
\* Cap on the second offset (the number of elements counted by indptr).
MaxIndptr == 3
\* Largest declared dimension of the vectors that are merged.
MaxMergeDim == 3
\* Largest capacity asked of with_capacity.
MaxCap == 4
\* Payloads pushed on the double stack are 0..MaxPayload (0 is I::default()).
MaxPayload == 1
\* Width of usize in the model.
UsizeBits == 8

UsizeModulus == 2 ^ UsizeBits

VARIABLES
    alive,      \* TRUE when a constructor has returned an object
    last,       \* the last call: [op, outcome, arg, ret]
    vec,        \* the CsVec: [dim, indptr, indices, data, owned]
    hist,       \* history: [ctor, n, converted], how the object came to be
    stacks,     \* DStack.stacks
    rec_head,   \* DStack.rec_head : Option<usize>
    out_head,   \* DStack.out_head : usize
    absRec,     \* history: recursion values pushed and not yet popped, oldest first
    absData,    \* history: data values pushed and not yet popped or cleared, oldest first
    lhs,        \* the vector a merge or a dot product is called on (self)
    rhs,        \* its right operand (other / rhs)
    zip,        \* the iterator nnz_or_zip or nnz_zip returned, [kind, left, right]
    out         \* history: the elements the iterator has yielded, in order

vars == <<alive, last, vec, hist, stacks, rec_head, out_head, absRec, absData,
          lhs, rhs, zip, out>>
stackVars == <<stacks, rec_head, out_head, absRec, absData>>
mergeVars == <<lhs, rhs, zip, out>>

\* ------------------------------------------------------------- helpers
None == <<>>
Some(x) == <<x>>

SeqsUpTo(S, n) == UNION {[1..k -> S] : k \in 0..n}

At(s, i) == s[i + 1]
Put(s, i, x) == [s EXCEPT ![i + 1] = x]

\* History of the last call made: its name, its outcome ("Ok" or an error
\* name for a constructor returning Result, "ok" or "panic" otherwise), its
\* arguments and the value it returned.
Call(op, outcome, arg, ret) ==
    [op |-> op, outcome |-> outcome, arg |-> arg, ret |-> ret]

NoCall == Call("none", "ok", <<>>, <<>>)

\* No merge is under way: the merge variables at rest.
NoZip == [kind |-> "none", left |-> <<>>, right |-> <<>>]

\* ctor: the constructor that made the object; n: its first argument (the
\* dimension or the capacity asked for); converted: whether borrowed() or
\* to_owned() has replaced a vector since.
Hist(ctor, n, converted) == [ctor |-> ctor, n |-> n, converted |-> converted]

\* =================================================================
\*                      CsVec  (src/sparse/vec.rs)
\* =================================================================
Coords == 0..MaxDim
Dims == 0..MaxDim
\* CsVec is generic in N: Copy and never inspects a stored value: two
\* values that differ tell every element from its neighbours.
Values == {1, 2}

\* struct CsVec { dim, indptr: [usize; 2], indices, data }; owned tells
\* CsVecOwned (Vec storage) from CsVecView (slice storage).
CsVec(dim, indptr, indices, data, owned) ==
    [dim |-> dim, indptr |-> indptr, indices |-> indices, data |-> data,
     owned |-> owned]

NoVec == CsVec(0, <<0, 0>>, <<>>, <<>>, FALSE)

\* self.indices.windows(2).all(|x| x[0] < x[1])
windows_all_increasing(indices) ==
    \A k \in 1..(Len(indices) - 1) : indices[k] < indices[k + 1]

\* self.indices.iter().max().unwrap_or(&0)
max_or_zero(indices) ==
    IF indices = <<>> THEN 0
    ELSE CHOOSE m \in {indices[k] : k \in 1..Len(indices)} :
            \A k \in 1..Len(indices) : indices[k] <= m

check_structure(v) ==
    IF ~ windows_all_increasing(v.indices) THEN "NonSortedIndices"
    ELSE IF max_or_zero(v.indices) >= v.dim THEN "OutOfBoundsIndex"
    ELSE "Ok"

\* v.check_structure().and(Ok(v)): the constructed value is returned only
\* when the check passes, otherwise the error is.
new_borrowed(n, indices, data) ==
    LET v == CsVec(n, <<0, Len(indices)>>, indices, data, FALSE)
        r == check_structure(v)
    IN  /\ ~alive
        /\ last = NoCall
        /\ alive' = (r = "Ok")
        /\ vec' = IF r = "Ok" THEN v ELSE NoVec
        /\ last' = Call("new_borrowed", r, <<n, indices, data>>, <<>>)
        /\ hist' = Hist("new_borrowed", n, FALSE)
        /\ UNCHANGED <<stackVars, mergeVars>>

new_owned(n, indices, data) ==
    LET v == CsVec(n, <<0, Len(indices)>>, indices, data, TRUE)
        r == check_structure(v)
    IN  /\ ~alive
        /\ last = NoCall
        /\ alive' = (r = "Ok")
        /\ vec' = IF r = "Ok" THEN v ELSE NoVec
        /\ last' = Call("new_owned", r, <<n, indices, data>>, <<>>)
        /\ hist' = Hist("new_owned", n, FALSE)
        /\ UNCHANGED <<stackVars, mergeVars>>

empty(dim) ==
    /\ ~alive
    /\ last = NoCall
    /\ alive' = TRUE
    /\ vec' = CsVec(dim, <<0, 0>>, <<>>, <<>>, TRUE)
    /\ last' = Call("empty", "Ok", <<dim>>, <<>>)
    /\ hist' = Hist("empty", dim, FALSE)
    /\ UNCHANGED <<stackVars, mergeVars>>

\* A call can be made on the vector: it exists and no call on it panicked.
VecUsable == alive /\ last.outcome # "panic"

\* append with the order assertion left out.
append_without_order_check(ind, val) ==
    /\ VecUsable
    /\ vec.owned
    /\ vec.indptr[2] < MaxIndptr
    /\ IF ~ (ind <= vec.dim)
       THEN /\ vec' = vec
            /\ last' = Call("append", "panic", <<ind, val>>, <<>>)
       ELSE /\ vec' = [vec EXCEPT !.indptr = <<vec.indptr[1], vec.indptr[2] + 1>>,
                                  !.indices = Append(vec.indices, ind),
                                  !.data = Append(vec.data, val)]
            /\ last' = Call("append", "ok", <<ind, val>>, <<>>)
    /\ UNCHANGED <<alive, hist, stackVars, mergeVars>>

\* The two assertions, then the three writes.  The guard on indptr[2] caps
\* the offset, which no call ever lowers.
append(ind, val) ==
    /\ VecUsable
    /\ vec.owned
    /\ vec.indptr[2] < MaxIndptr
    /\ IF \/ (vec.indices # <<>> /\ ~ (ind > vec.indices[Len(vec.indices)]))
          \/ ~ (ind <= vec.dim)
       THEN /\ vec' = vec
            /\ last' = Call("append", "panic", <<ind, val>>, <<>>)
       ELSE /\ vec' = [vec EXCEPT !.indptr = <<vec.indptr[1], vec.indptr[2] + 1>>,
                                  !.indices = Append(vec.indices, ind),
                                  !.data = Append(vec.data, val)]
            /\ last' = Call("append", "ok", <<ind, val>>, <<>>)
    /\ UNCHANGED <<alive, hist, stackVars, mergeVars>>

\* Vec::reserve / Vec::reserve_exact change the capacity of the two buffers
\* only; no field or accessor of CsVec reads the capacity.
reserve(size) ==
    /\ VecUsable
    /\ vec.owned
    /\ last' = Call("reserve", "ok", <<size>>, <<>>)
    /\ UNCHANGED <<alive, vec, hist, stackVars, mergeVars>>

reserve_exact(exact_size) ==
    /\ VecUsable
    /\ vec.owned
    /\ last' = Call("reserve_exact", "ok", <<exact_size>>, <<>>)
    /\ UNCHANGED <<alive, vec, hist, stackVars, mergeVars>>

\* clear that empties the indices and keeps the values.
clear_keeps_data ==
    /\ VecUsable
    /\ vec.owned
    /\ vec' = [vec EXCEPT !.indices = <<>>]
    /\ last' = Call("clear", "ok", <<>>, <<>>)
    /\ UNCHANGED <<alive, hist, stackVars, mergeVars>>

\* self.indices.clear(); self.data.clear(): dim and indptr are not written.
clear ==
    /\ VecUsable
    /\ vec.owned
    /\ vec' = [vec EXCEPT !.indices = <<>>, !.data = <<>>]
    /\ last' = Call("clear", "ok", <<>>, <<>>)
    /\ UNCHANGED <<alive, hist, stackVars, mergeVars>>

\* The struct literal of borrowed(): the fields of self, the two buffers
\* as slices.
borrowed_view(v) == CsVec(v.dim, v.indptr, v.indices, v.data, FALSE)

\* A copy whose offset pair is computed from the indices, where to_owned
\* copies self.indptr.
to_owned_respanned(v) == CsVec(v.dim, <<0, Len(v.indices)>>, v.indices, v.data, TRUE)

\* The struct literal of to_owned(): the fields of self, the two buffers
\* copied with to_vec().
to_owned_copy(v) == CsVec(v.dim, v.indptr, v.indices, v.data, TRUE)

\* The view returned by borrowed() and the copy returned by to_owned()
\* become the vector the following calls are made on; the history keeps
\* the receiver (&self) as the argument of the call.
borrowed ==
    /\ VecUsable
    /\ vec' = borrowed_view(vec)
    /\ last' = Call("borrowed", "ok", <<vec>>, <<>>)
    /\ hist' = [hist EXCEPT !.converted = TRUE]
    /\ UNCHANGED <<alive, stackVars, mergeVars>>

to_owned ==
    /\ VecUsable
    /\ vec' = to_owned_copy(vec)
    /\ last' = Call("to_owned", "ok", <<vec>>, <<>>)
    /\ hist' = [hist EXCEPT !.converted = TRUE]
    /\ UNCHANGED <<alive, stackVars, mergeVars>>

Min(x, y) == IF x <= y THEN x ELSE y

\* struct VectorIterator { dim, ind_data: Zip<Iter<usize>, Iter<N>> }: the
\* zip is the sequence of (index, value) pairs still to come.
VectorIterator(d, ind_data) == [dim |-> d, ind_data |-> ind_data]

\* self.indices.iter().zip(self.data.iter()): a zip ends with its shorter side.
iter(v) ==
    VectorIterator(v.dim,
        [k \in 1..Min(Len(v.indices), Len(v.data)) |-> <<v.indices[k], v.data[k]>>])

\* VectorIterator::next: [it, item], the iterator after the call and the
\* Option it returned.
VectorIteratorNext(it) ==
    IF it.ind_data = <<>>
    THEN [it |-> it, item |-> None]
    ELSE [it |-> [it EXCEPT !.ind_data = Tail(it.ind_data)],
          item |-> Some(Head(it.ind_data))]

\* v.iter() pulled to its end: the items next() returns before None.
RECURSIVE Collect(_)
Collect(it) ==
    LET r == VectorIteratorNext(it) IN
    IF r.item = None THEN <<>> ELSE <<r.item[1]>> \o Collect(r.it)

\* iter() takes &self: the vector is left as it is; the history keeps the
\* items yielded.
iter_all ==
    /\ VecUsable
    /\ last' = Call("iter", "ok", <<>>, Collect(iter(vec)))
    /\ UNCHANGED <<alive, vec, hist, stackVars, mergeVars>>

\* Accessors.
indices(v) == v.indices
data(v) == v.data
dim(v) == v.dim
nnz(v) == Len(v.data)

\* The merge variables of a behaviour that merges nothing.
NoMerge == lhs = NoVec /\ rhs = NoVec /\ zip = NoZip /\ out = <<>>

InitVec ==
    /\ alive = FALSE
    /\ last = NoCall
    /\ vec = NoVec
    /\ hist = Hist("none", 0, FALSE)
    /\ stacks = <<>>
    /\ rec_head = None
    /\ out_head = 0
    /\ absRec = <<>>
    /\ absData = <<>>
    /\ NoMerge

\* The constructor arguments are enumerated only in the state the
\* constructors are enabled in.
NextVec ==
    \/ /\ ~alive
       /\ \E n \in Dims, ind \in SeqsUpTo(Coords, MaxLen), dat \in SeqsUpTo(Values, MaxLen) :
             new_owned(n, ind, dat)
    \/ /\ ~alive
       /\ \E n \in Dims, ind \in SeqsUpTo(Coords, MaxLen), dat \in SeqsUpTo(Values, MaxLen) :
             new_borrowed(n, ind, dat)
    \/ \E d \in Dims : empty(d)
    \/ \E ind \in 0..(MaxDim + 1), val \in Values : append(ind, val)
    \/ \E size \in 0..1 : reserve(size)
    \/ \E size \in 0..1 : reserve_exact(size)
    \/ clear
    \/ borrowed
    \/ to_owned
    \/ iter_all

SpecVec == InitVec /\ [][NextVec]_vars

\* =================================================================
\*     Iteration and merge of two vectors  (src/sparse/vec.rs)
\* =================================================================
\* Iterator::peekable(): peeked is an Option<Option<Item>>.
Peekable(it) == [iter |-> it, peeked |-> None]

\* Peekable::peek: pulls one item into peeked unless one is there.
peek(p) ==
    IF p.peeked # None
    THEN [p |-> p, item |-> p.peeked[1]]
    ELSE LET r == VectorIteratorNext(p.iter)
         IN  [p |-> [iter |-> r.it, peeked |-> Some(r.item)], item |-> r.item]

\* Peekable::next: takes the peeked item if there is one.
PeekableNext(p) ==
    IF p.peeked # None
    THEN [p |-> [p EXCEPT !.peeked = None], item |-> p.peeked[1]]
    ELSE LET r == VectorIteratorNext(p.iter)
         IN  [p |-> [p EXCEPT !.iter = r.it], item |-> r.item]

\* enum NnzEither { Both((usize, N1, N2)), Left((usize, N1)), Right((usize, N2)) }
Both(ind, lval, rval) == [tag |-> "Both", val |-> <<ind, lval, rval>>]
Left(ind, lval) == [tag |-> "Left", val |-> <<ind, lval>>]
Right(ind, rval) == [tag |-> "Right", val |-> <<ind, rval>>]

\* struct NnzOrZip { left, right }, and the result of a next() on it.
NnzOrZip(left, right) == [left |-> left, right |-> right]
Yield(left, right, item) == [left |-> left, right |-> right, item |-> item]

\* NnzOrZip::next yielding a coordinate stored on both sides as Left only,
\* the right side kept for the following call.
NnzOrZipNext_tie_as_left(m) ==
    LET pl == peek(m.left)
        pr == peek(m.right)
        nl == PeekableNext(pl.p)
        nr == PeekableNext(pr.p)
    IN  IF pl.item = None /\ pr.item # None
        THEN Yield(pl.p, nr.p, Some(Right(nr.item[1][1], nr.item[1][2])))
        ELSE IF pl.item # None /\ pr.item = None
        THEN Yield(nl.p, pr.p, Some(Left(nl.item[1][1], nl.item[1][2])))
        ELSE IF pl.item = None /\ pr.item = None
        THEN Yield(pl.p, pr.p, None)
        ELSE LET lind == pl.item[1][1]
                 rind == pr.item[1][1]
             IN  IF lind <= rind
                 THEN Yield(nl.p, pr.p, Some(Left(nl.item[1][1], nl.item[1][2])))
                 ELSE Yield(pl.p, nr.p, Some(Right(nr.item[1][1], nr.item[1][2])))

\* NnzOrZip::next without the branch for a right coordinate below the left
\* one: the two heads are paired whenever the left one is not the smaller.
NnzOrZipNext_without_right_branch(m) ==
    LET pl == peek(m.left)
        pr == peek(m.right)
        nl == PeekableNext(pl.p)
        nr == PeekableNext(pr.p)
    IN  IF pl.item = None /\ pr.item # None
        THEN Yield(pl.p, nr.p, Some(Right(nr.item[1][1], nr.item[1][2])))
        ELSE IF pl.item # None /\ pr.item = None
        THEN Yield(nl.p, pr.p, Some(Left(nl.item[1][1], nl.item[1][2])))
        ELSE IF pl.item = None /\ pr.item = None
        THEN Yield(pl.p, pr.p, None)
        ELSE LET lind == pl.item[1][1]
                 rind == pr.item[1][1]
             IN  IF lind < rind
                 THEN Yield(nl.p, pr.p, Some(Left(nl.item[1][1], nl.item[1][2])))
                 ELSE Yield(nl.p, nr.p,
                            Some(Both(nl.item[1][1], nl.item[1][2], nr.item[1][2])))

\* NnzOrZip::next.  Both sides are peeked first; each unwrap() is of a
\* next() whose item was just peeked as Some.
NnzOrZipNext(m) ==
    LET pl == peek(m.left)
        pr == peek(m.right)
        nl == PeekableNext(pl.p)
        nr == PeekableNext(pr.p)
    IN  IF pl.item = None /\ pr.item # None
        THEN Yield(pl.p, nr.p, Some(Right(nr.item[1][1], nr.item[1][2])))
        ELSE IF pl.item # None /\ pr.item = None
        THEN Yield(nl.p, pr.p, Some(Left(nl.item[1][1], nl.item[1][2])))
        ELSE IF pl.item = None /\ pr.item = None
        THEN Yield(pl.p, pr.p, None)
        ELSE LET lind == pl.item[1][1]
                 rind == pr.item[1][1]
             IN  IF lind < rind
                 THEN Yield(nl.p, pr.p, Some(Left(nl.item[1][1], nl.item[1][2])))
                 ELSE IF rind < lind
                 THEN Yield(pl.p, nr.p, Some(Right(nr.item[1][1], nr.item[1][2])))
                 ELSE Yield(nl.p, nr.p,
                            Some(Both(nl.item[1][1], nl.item[1][2], nr.item[1][2])))

Max(x, y) == IF x >= y THEN x ELSE y

\* Peekable::size_hint over the zip of two slice iterators, whose bounds are
\* both its length: (0, Some(0)) once None has been peeked, else the length
\* plus one for a peeked item.  The pair is <<lower, upper>>, upper an Option.
PeekableSizeHint(p) ==
    IF p.peeked = Some(None) THEN <<0, Some(0)>>
    ELSE LET peek_len == IF p.peeked = None THEN 0 ELSE 1
         IN  <<Len(p.iter.ind_data) + peek_len, Some(Len(p.iter.ind_data) + peek_len)>>

\* NnzOrZip::size_hint
size_hint(m) ==
    LET left_lower == PeekableSizeHint(m.left)[1]
        left_upper == PeekableSizeHint(m.left)[2]
        right_lower == PeekableSizeHint(m.right)[1]
        right_upper == PeekableSizeHint(m.right)[2]
        upper == IF left_upper # None /\ right_upper # None
                 THEN Some(left_upper[1] + right_upper[1])
                 ELSE IF left_upper # None THEN Some(left_upper[1])
                 ELSE IF right_upper # None THEN Some(right_upper[1])
                 ELSE None
    IN  <<Max(left_lower, right_lower), upper>>

filter_both_nnz(elem) ==
    IF elem.tag = "Both" THEN Some(elem.val) ELSE None

\* A next() that ends at the first element the filter rejects, where
\* FilterMap::next goes on to the following one.
FilterMapNext_stops_at_rejected(m) ==
    LET r == NnzOrZipNext(m) IN
    IF r.item = None THEN r
    ELSE Yield(r.left, r.right, filter_both_nnz(r.item[1]))

\* FilterMap::next over NnzOrZip with filter_both_nnz: pulls until the
\* filter returns Some or the merge ends.
RECURSIVE FilterMapNext(_)
FilterMapNext(m) ==
    LET r == NnzOrZipNext(m) IN
    IF r.item = None THEN r
    ELSE IF filter_both_nnz(r.item[1]) # None
         THEN Yield(r.left, r.right, filter_both_nnz(r.item[1]))
         ELSE FilterMapNext(NnzOrZip(r.left, r.right))

\* The fold keeping the last product, where the code adds them.
RECURSIVE MapFold_keeps_last(_, _)
MapFold_keeps_last(m, acc) ==
    LET r == FilterMapNext(m) IN
    IF r.item = None THEN acc
    ELSE MapFold_keeps_last(NnzOrZip(r.left, r.right), r.item[1][2] * r.item[1][3])

\* .map(|(_, lval, rval)| lval * rval).fold(N::zero(), |x, y| x + y)
RECURSIVE MapFold(_, _)
MapFold(m, acc) ==
    LET r == FilterMapNext(m) IN
    IF r.item = None THEN acc
    ELSE MapFold(NnzOrZip(r.left, r.right), acc + r.item[1][2] * r.item[1][3])

\* The iterator a merge call returns: kind tells nnz_or_zip ("or") from
\* nnz_zip ("zip", the FilterMap over the same NnzOrZip).
Zip(kind, left, right) == [kind |-> kind, left |-> left, right |-> right]

\* A merge or a dot product can be called: none was called before.
MergeCallable == last = NoCall /\ zip = NoZip

\* nnz_zip with the dimension assertion left out.
nnz_zip_without_assert ==
    /\ MergeCallable
    /\ IF FALSE
       THEN /\ last' = Call("nnz_zip", "panic", <<>>, <<>>)
            /\ UNCHANGED <<zip, out>>
       ELSE /\ zip' = Zip("zip", Peekable(iter(lhs)), Peekable(iter(rhs)))
            /\ out' = <<>>
            /\ last' = Call("nnz_zip", "ok", <<>>, <<>>)
    /\ UNCHANGED <<alive, vec, hist, stackVars, lhs, rhs>>

\* assert!(self.dim == other.dim), then the two peekables and the filter_map.
nnz_zip ==
    /\ MergeCallable
    /\ IF ~ (iter(lhs).dim = iter(rhs).dim)
       THEN /\ last' = Call("nnz_zip", "panic", <<>>, <<>>)
            /\ UNCHANGED <<zip, out>>
       ELSE /\ zip' = Zip("zip", Peekable(iter(lhs)), Peekable(iter(rhs)))
            /\ out' = <<>>
            /\ last' = Call("nnz_zip", "ok", <<>>, <<>>)
    /\ UNCHANGED <<alive, vec, hist, stackVars, lhs, rhs>>

\* assert!(self.dim == other.dim), then the two peekables.
nnz_or_zip ==
    /\ MergeCallable
    /\ IF ~ (iter(lhs).dim = iter(rhs).dim)
       THEN /\ last' = Call("nnz_or_zip", "panic", <<>>, <<>>)
            /\ UNCHANGED <<zip, out>>
       ELSE /\ zip' = Zip("or", Peekable(iter(lhs)), Peekable(iter(rhs)))
            /\ out' = <<>>
            /\ last' = Call("nnz_or_zip", "ok", <<>>, <<>>)
    /\ UNCHANGED <<alive, vec, hist, stackVars, lhs, rhs>>

\* A next() that yields an element and leaves the iterator where it was.
next_without_advance ==
    /\ zip # NoZip
    /\ LET m == NnzOrZip(zip.left, zip.right)
           r == IF zip.kind = "or" THEN NnzOrZipNext(m) ELSE FilterMapNext(m)
       IN  /\ zip' = IF r.item = None THEN Zip(zip.kind, r.left, r.right) ELSE zip
           /\ out' = IF r.item = None THEN out ELSE Append(out, r.item[1])
           /\ last' = Call("next", "ok", <<>>, r.item)
    /\ UNCHANGED <<alive, vec, hist, stackVars, lhs, rhs>>

\* One next() on the iterator returned; the item goes to the history out.
next ==
    /\ zip # NoZip
    /\ LET m == NnzOrZip(zip.left, zip.right)
           r == IF zip.kind = "or" THEN NnzOrZipNext(m) ELSE FilterMapNext(m)
       IN  /\ zip' = Zip(zip.kind, r.left, r.right)
           /\ out' = IF r.item = None THEN out ELSE Append(out, r.item[1])
           /\ last' = Call("next", "ok", <<>>, r.item)
    /\ UNCHANGED <<alive, vec, hist, stackVars, lhs, rhs>>

\* The value of a.dot(b) when the assertion of nnz_zip passes: the map and
\* the fold over the iterator nnz_zip builds, from N::zero().
DotOf(a, b) == MapFold(NnzOrZip(Peekable(iter(a)), Peekable(iter(b))), 0)

\* dot: nnz_zip (with its assertion), then the map and the fold.
dot ==
    /\ MergeCallable
    /\ IF ~ (iter(lhs).dim = iter(rhs).dim)
       THEN last' = Call("dot", "panic", <<>>, <<>>)
       ELSE last' = Call("dot", "ok", <<>>, <<DotOf(lhs, rhs)>>)
    /\ UNCHANGED <<alive, vec, hist, stackVars, mergeVars>>

MergeDims == 0..MaxMergeDim

\* The valid vectors the merges are called on: those empty(d) returns, and
\* those new_owned returns Ok for when data is as long as indices.
MergeVecs ==
    {CsVec(d, <<0, 0>>, <<>>, <<>>, TRUE) : d \in MergeDims}
    \cup
    {v \in {CsVec(n, <<0, Len(ind)>>, ind, dat, TRUE) :
               n \in MergeDims, ind \in SeqsUpTo(MergeDims, MaxLen),
               dat \in SeqsUpTo(Values, MaxLen)} :
        Len(v.indices) = Len(v.data) /\ check_structure(v) = "Ok"}

InitMerge ==
    /\ alive = FALSE
    /\ last = NoCall
    /\ vec = NoVec
    /\ hist = Hist("none", 0, FALSE)
    /\ stacks = <<>>
    /\ rec_head = None
    /\ out_head = 0
    /\ absRec = <<>>
    /\ absData = <<>>
    /\ lhs \in MergeVecs
    /\ rhs \in MergeVecs
    /\ zip = NoZip
    /\ out = <<>>

NextMerge ==
    \/ nnz_or_zip
    \/ nnz_zip
    \/ next
    \/ dot

SpecMerge == InitMerge /\ [][NextMerge]_vars

\* The caller of nnz_or_zip (a for loop, collect, fold) goes on calling
\* next() on the iterator it was returned.
SpecMergeFair == SpecMerge /\ WF_vars(zip.kind = "or" /\ next)

\* =================================================================
\*                      DStack  (src/stack.rs)
\* =================================================================
Payloads == 0..MaxPayload

\* enum StackVal<I> { Enter(I), Exit(I) }
Enter(i) == [tag |-> "Enter", val |-> i]
Exit(i) == [tag |-> "Exit", val |-> i]
StackVal == {Enter(i) : i \in Payloads} \cup {Exit(i) : i \in Payloads}

\* I::default() of an integer payload.
DefaultPayload == 0

\* A call can be made on the stack: it exists and no call on it panicked.
StackUsable == alive /\ last.outcome # "panic"

with_capacity(n) ==
    /\ ~alive
    /\ last = NoCall
    /\ IF ~ (n > 1)
       THEN /\ last' = Call("with_capacity", "panic", <<n>>, <<>>)
            /\ UNCHANGED <<alive, hist, stackVars>>
       ELSE /\ stacks' = [i \in 1..n |-> Enter(DefaultPayload)]
            /\ rec_head' = None
            /\ out_head' = n
            /\ alive' = TRUE
            /\ hist' = Hist("with_capacity", n, FALSE)
            /\ last' = Call("with_capacity", "ok", <<n>>, <<>>)
            /\ absRec' = <<>>
            /\ absData' = <<>>
    /\ UNCHANGED <<vec, mergeVars>>

capacity == Len(stacks)

is_rec_empty == rec_head = None

is_data_empty == out_head = capacity

\* A panic of a call on the stack that has written new_out_head to out_head.
StackPanic(op, arg, new_out_head) ==
    /\ last' = Call(op, "panic", arg, <<>>)
    /\ out_head' = new_out_head
    /\ UNCHANGED <<stacks, rec_head, absRec, absData>>

\* push_rec with the overlap assertion off by one (head <= out_head).
push_rec_off_by_one(value) ==
    /\ StackUsable
    /\ LET head == IF rec_head = None THEN 0 ELSE rec_head[1] + 1 IN
       IF ~ (head <= out_head) \/ ~ (head < Len(stacks))
       THEN StackPanic("push_rec", <<value>>, out_head)
       ELSE /\ stacks' = Put(stacks, head, value)
            /\ rec_head' = Some(head)
            /\ absRec' = Append(absRec, value)
            /\ last' = Call("push_rec", "ok", <<value>>, <<>>)
            /\ UNCHANGED <<out_head, absData>>
    /\ UNCHANGED <<alive, vec, hist, mergeVars>>

\* let head = self.rec_head.map_or(0, |x| x + 1); the assertion, then the
\* bounds-checked store self.stacks[head] = value.
push_rec(value) ==
    /\ StackUsable
    /\ LET head == IF rec_head = None THEN 0 ELSE rec_head[1] + 1 IN
       IF ~ (head < out_head) \/ ~ (head < Len(stacks))
       THEN StackPanic("push_rec", <<value>>, out_head)
       ELSE /\ stacks' = Put(stacks, head, value)
            /\ rec_head' = Some(head)
            /\ absRec' = Append(absRec, value)
            /\ last' = Call("push_rec", "ok", <<value>>, <<>>)
            /\ UNCHANGED <<out_head, absData>>
    /\ UNCHANGED <<alive, vec, hist, mergeVars>>

\* push_data with the overlap assertion left out.
push_data_without_assert(value) ==
    /\ StackUsable
    /\ IF out_head = 0
       THEN \E overflow_checks \in BOOLEAN :
               StackPanic("push_data", <<value>>,
                          IF overflow_checks THEN out_head ELSE UsizeModulus - 1)
       ELSE LET head == out_head - 1 IN
            IF ~ (head < Len(stacks))
            THEN StackPanic("push_data", <<value>>, head)
            ELSE /\ stacks' = Put(stacks, head, Enter(value))
                 /\ out_head' = head
                 /\ absData' = Append(absData, value)
                 /\ last' = Call("push_data", "ok", <<value>>, <<>>)
                 /\ UNCHANGED <<rec_head, absRec>>
    /\ UNCHANGED <<alive, vec, hist, mergeVars>>

\* push_data lowering out_head without the store of Enter(value): the slot
\* keeps what was last written to it.
push_data_without_store(value) ==
    /\ StackUsable
    /\ IF out_head = 0
       THEN \E overflow_checks \in BOOLEAN :
               StackPanic("push_data", <<value>>,
                          IF overflow_checks THEN out_head ELSE UsizeModulus - 1)
       ELSE LET head == out_head - 1 IN
            IF (rec_head # None /\ ~ (head > rec_head[1])) \/ ~ (head < Len(stacks))
            THEN StackPanic("push_data", <<value>>, head)
            ELSE /\ out_head' = head
                 /\ absData' = Append(absData, value)
                 /\ last' = Call("push_data", "ok", <<value>>, <<>>)
                 /\ UNCHANGED <<stacks, rec_head, absRec>>
    /\ UNCHANGED <<alive, vec, hist, mergeVars>>

\* self.out_head -= 1 comes first.  At out_head = 0 a build with overflow
\* checks panics in the subtraction and leaves out_head; a build without
\* them wraps out_head to usize::MAX, passes or skips the assertion (rec_head
\* is below usize::MAX) and panics in the bounds-checked store.  Otherwise
\* the assertion runs on the decremented out_head, then the store.
push_data(value) ==
    /\ StackUsable
    /\ IF out_head = 0
       THEN \E overflow_checks \in BOOLEAN :
               StackPanic("push_data", <<value>>,
                          IF overflow_checks THEN out_head ELSE UsizeModulus - 1)
       ELSE LET head == out_head - 1 IN
            IF (rec_head # None /\ ~ (head > rec_head[1])) \/ ~ (head < Len(stacks))
            THEN StackPanic("push_data", <<value>>, head)
            ELSE /\ stacks' = Put(stacks, head, Enter(value))
                 /\ out_head' = head
                 /\ absData' = Append(absData, value)
                 /\ last' = Call("push_data", "ok", <<value>>, <<>>)
                 /\ UNCHANGED <<rec_head, absRec>>
    /\ UNCHANGED <<alive, vec, hist, mergeVars>>

Front(s) == SubSeq(s, 1, Len(s) - 1)

\* pop_rec reading the slot below the head it pops.
pop_rec_reads_new_head ==
    /\ StackUsable
    /\ IF rec_head = None
       THEN /\ last' = Call("pop_rec", "ok", <<>>, None)
            /\ UNCHANGED stackVars
       ELSE LET head == rec_head[1]
                res == At(stacks, IF head > 0 THEN head - 1 ELSE head)
            IN  /\ rec_head' = IF head > 0 THEN Some(head - 1) ELSE None
                /\ absRec' = Front(absRec)
                /\ last' = Call("pop_rec", "ok", <<>>, Some(res))
                /\ UNCHANGED <<stacks, out_head, absData>>
    /\ UNCHANGED <<alive, vec, hist, mergeVars>>

pop_rec ==
    /\ StackUsable
    /\ IF rec_head = None
       THEN /\ last' = Call("pop_rec", "ok", <<>>, None)
            /\ UNCHANGED stackVars
       ELSE LET head == rec_head[1]
                res == At(stacks, head)
            IN  /\ rec_head' = IF head > 0 THEN Some(head - 1) ELSE None
                /\ absRec' = Front(absRec)
                /\ last' = Call("pop_rec", "ok", <<>>, Some(res))
                /\ UNCHANGED <<stacks, out_head, absData>>
    /\ UNCHANGED <<alive, vec, hist, mergeVars>>

\* The else branch of the if let is unreachable!(), a panic.
pop_data ==
    /\ StackUsable
    /\ IF out_head >= Len(stacks)
       THEN /\ last' = Call("pop_data", "ok", <<>>, None)
            /\ UNCHANGED stackVars
       ELSE IF At(stacks, out_head).tag = "Enter"
            THEN /\ out_head' = out_head + 1
                 /\ absData' = Front(absData)
                 /\ last' = Call("pop_data", "ok", <<>>, Some(At(stacks, out_head).val))
                 /\ UNCHANGED <<stacks, rec_head, absRec>>
            ELSE StackPanic("pop_data", <<>>, out_head)
    /\ UNCHANGED <<alive, vec, hist, mergeVars>>

\* n - self.out_head, on a stack no call has panicked on (out_head <= n).
len_data == Len(stacks) - out_head

\* clear_data resetting the recursion head with the data head.
clear_data_resets_both ==
    /\ StackUsable
    /\ out_head' = Len(stacks)
    /\ rec_head' = None
    /\ absData' = <<>>
    /\ last' = Call("clear_data", "ok", <<>>, <<>>)
    /\ UNCHANGED <<stacks, absRec, alive, vec, hist, mergeVars>>

\* self.out_head = self.stacks.len()
clear_data ==
    /\ StackUsable
    /\ out_head' = Len(stacks)
    /\ absData' = <<>>
    /\ last' = Call("clear_data", "ok", <<>>, <<>>)
    /\ UNCHANGED <<stacks, rec_head, absRec, alive, vec, hist, mergeVars>>

extract_stack_val(stack_val) == stack_val.val

Reverse(s) == [k \in 1..Len(s) |-> s[Len(s) + 1 - k]]

\* self.stacks[self.out_head..].iter().map(extract_stack_val), collected.
IterDataSeq ==
    [k \in 1..(Len(stacks) - out_head) |->
        extract_stack_val(At(stacks, out_head + k - 1))]

\* iter_data walking the slice from its far end (.rev()).
iter_data_rev ==
    /\ StackUsable
    /\ last' = Call("iter_data", "ok", <<>>, Reverse(IterDataSeq))
    /\ UNCHANGED <<stackVars, alive, vec, hist, mergeVars>>

iter_data ==
    /\ StackUsable
    /\ last' = Call("iter_data", "ok", <<>>, IterDataSeq)
    /\ UNCHANGED <<stackVars, alive, vec, hist, mergeVars>>

InitStack ==
    /\ alive = FALSE
    /\ last = NoCall
    /\ vec = NoVec
    /\ hist = Hist("none", 0, FALSE)
    /\ stacks = <<>>
    /\ rec_head = None
    /\ out_head = 0
    /\ absRec = <<>>
    /\ absData = <<>>
    /\ NoMerge

NextStack ==
    \/ \E n \in 0..MaxCap : with_capacity(n)
    \/ \E value \in StackVal : push_rec(value)
    \/ \E value \in Payloads : push_data(value)
    \/ pop_rec
    \/ pop_data
    \/ clear_data
    \/ iter_data

SpecStack == InitStack /\ [][NextStack]_vars

\* ------------------------------------------------------- CsVec claims
StrictlyIncreasing(s) == \A j, k \in 1..Len(s) : j < k => s[j] < s[k]
AllBelow(s, d) == \A k \in 1..Len(s) : s[k] < d
LastOf(s) == s[Len(s)]
IsCtorCall == last.op \in {"new_owned", "new_borrowed"}

\* C1: every owned vector made by new_owned or empty and then changed only
\* by successful append, clear, reserve and reserve_exact calls has strictly
\* increasing indices, each strictly less than dim.
C1_OwnedIndicesSortedBelowDim ==
    (VecUsable /\ hist.ctor \in {"new_owned", "empty"} /\ ~hist.converted)
        => (StrictlyIncreasing(indices(vec)) /\ AllBelow(indices(vec), dim(vec)))

\* C2: in every vector reached by construction followed by append, clear,
\* borrowed and to_owned, the offset pair is [0, indices.len()].
C2_IndptrSpansIndices ==
    VecUsable => vec.indptr = <<0, Len(indices(vec))>>

\* C3: new_owned and new_borrowed return an error whenever indices and data
\* differ in length.
C3_LengthMismatchRejected ==
    (IsCtorCall /\ Len(last.arg[2]) # Len(last.arg[3])) => last.outcome # "Ok"

\* C4: with indices and data of equal length, new_owned and new_borrowed
\* return Ok exactly when the indices are strictly increasing and all below
\* dim, NonSortedIndices when they are not strictly increasing, and
\* OutOfBoundsIndex when they are strictly increasing but one is >= dim.
C4_ConstructorOutcome ==
    (IsCtorCall /\ Len(last.arg[2]) = Len(last.arg[3])) =>
        LET n == last.arg[1]
            ind == last.arg[2]
        IN  /\ (last.outcome = "Ok") <=> (StrictlyIncreasing(ind) /\ AllBelow(ind, n))
            /\ ~ StrictlyIncreasing(ind) => last.outcome = "NonSortedIndices"
            /\ (StrictlyIncreasing(ind) /\ ~ AllBelow(ind, n))
                   => last.outcome = "OutOfBoundsIndex"

\* C5: append(ind, val) panics and leaves the vector as it was when the
\* vector is non-empty and ind is not above the last stored index, or when
\* ind is above dim; otherwise it puts ind and val at the end of the two
\* buffers and leaves the earlier elements and dim as they were.
C5_AppendStep ==
    (last'.op = "append") =>
        LET ind == last'.arg[1]
            val == last'.arg[2]
        IN  IF \/ (indices(vec) # <<>> /\ ind <= LastOf(indices(vec)))
               \/ ind > dim(vec)
            THEN last'.outcome = "panic" /\ vec' = vec
            ELSE /\ last'.outcome = "ok"
                 /\ indices(vec') = indices(vec) \o <<ind>>
                 /\ data(vec') = data(vec) \o <<val>>
                 /\ dim(vec') = dim(vec)

C5_AppendContract == [][C5_AppendStep]_vars

\* An append of an index below the last stored one has panicked.
C5_Witness ==
    /\ last.op = "append"
    /\ last.outcome = "panic"
    /\ indices(vec) # <<>>
    /\ last.arg[1] < LastOf(indices(vec))
    /\ last.arg[1] <= dim(vec)

\* C16: on a vector a constructor has just returned, iter() yields nnz()
\* pairs, the k-th being (indices[k], data[k]), by strictly ascending
\* index; it leaves the vector as it was, and a second iter() yields the
\* same sequence.
C16_IterStep ==
    /\ (last.op \in {"new_owned", "new_borrowed", "empty"} /\ last'.op = "iter") =>
          /\ Len(last'.ret) = nnz(vec)
          /\ \A k \in 1..Len(last'.ret) :
                last'.ret[k] = <<indices(vec)[k], data(vec)[k]>>
          /\ StrictlyIncreasing([k \in 1..Len(last'.ret) |-> last'.ret[k][1]])
          /\ vec' = vec
    /\ (last.op = "iter" /\ last'.op = "iter") => last'.ret = last.ret

C16_IterYieldsNnzPairs == [][C16_IterStep]_vars

\* C19: clear() leaves nnz() = 0, indices() and data() empty and dim() as
\* it was; a second clear() changes nothing; an append that follows panics
\* exactly when its index is above dim, whatever was stored before.
C19_ClearStep ==
    /\ last'.op = "clear" =>
          /\ nnz(vec') = 0
          /\ indices(vec') = <<>>
          /\ data(vec') = <<>>
          /\ dim(vec') = dim(vec)
    /\ (last.op = "clear" /\ last'.op = "clear") => vec' = vec
    /\ (last.op = "clear" /\ last'.op = "append") =>
          /\ (last'.outcome = "ok") <=> (last'.arg[1] <= dim(vec))
          /\ last'.outcome = "ok" =>
                (indices(vec') = <<last'.arg[1]>> /\ data(vec') = <<last'.arg[2]>>)

C19_ClearEmpties == [][C19_ClearStep]_vars

\* An append of index 0 has succeeded on a vector that holds nothing else
\* and whose offset pair counts an element stored before a clear().
C19_Witness ==
    /\ last.op = "append"
    /\ last.outcome = "ok"
    /\ indices(vec) = <<0>>
    /\ vec.indptr = <<0, 2>>

\* C20: for every owned vector v, v.borrowed().to_owned() equals v in dim,
\* offset pair, indices and data; a to_owned() called on the view that
\* borrowed() returned for v yields v.
C20_RoundTripStep ==
    /\ (VecUsable /\ vec.owned) => to_owned_copy(borrowed_view(vec)) = vec
    /\ (last.op = "borrowed" /\ last.arg[1].owned /\ last'.op = "to_owned") =>
          (vec' = last.arg[1] /\ last'.arg[1] = borrowed_view(last.arg[1]))

C20_RoundTrip == [][C20_RoundTripStep]_vars

\* to_owned() has returned the copy of a view of a vector made by
\* new_owned, whose offset pair is no longer [0, indices.len()] after a
\* clear() and an append.
C20_Witness ==
    /\ last.op = "to_owned"
    /\ ~ last.arg[1].owned
    /\ hist.ctor = "new_owned"
    /\ vec.owned
    /\ indices(vec) # <<>>
    /\ vec.indptr # <<0, Len(indices(vec))>>

\* ------------------------------------------------------- merge claims
\* The coordinates stored in v and, for a stored coordinate, its value.
Stored(v) == {v.indices[k] : k \in 1..Len(v.indices)}
ValueAt(v, i) == v.data[CHOOSE k \in 1..Len(v.indices) : v.indices[k] = i]

\* The members of a finite set of numbers, smallest first.
Ascending(S) ==
    [k \in 1..Cardinality(S) |->
        CHOOSE x \in S : Cardinality({y \in S : y < x}) = k - 1]

IsPrefix(s, t) == Len(s) <= Len(t) /\ s = SubSeq(t, 1, Len(s))

\* The iterator has been pulled to its end.
Exhausted == last.op = "next" /\ last.ret = None

\* The element the claim gives coordinate i of a or b.
UnionElement(a, b, i) ==
    IF i \in Stored(a) /\ i \in Stored(b) THEN Both(i, ValueAt(a, i), ValueAt(b, i))
    ELSE IF i \in Stored(a) THEN Left(i, ValueAt(a, i))
    ELSE Right(i, ValueAt(b, i))

UnionOf(a, b) ==
    LET s == Ascending(Stored(a) \cup Stored(b))
    IN  [k \in 1..Len(s) |-> UnionElement(a, b, s[k])]

IntersectionOf(a, b) ==
    LET s == Ascending(Stored(a) \cap Stored(b))
    IN  [k \in 1..Len(s) |-> <<s[k], ValueAt(a, s[k]), ValueAt(b, s[k])>>]

\* C11: for valid vectors a and b of equal dimension, nnz_or_zip yields one
\* element per coordinate stored in a or b, by ascending coordinate: Left
\* for a coordinate of a only, Right for one of b only, Both for one of
\* both.  Every sequence yielded so far is the beginning of that sequence,
\* and the whole of it once the iterator has returned None.
C11_OrZipOnePerCoordinate ==
    zip.kind = "or" =>
        /\ IsPrefix(out, UnionOf(lhs, rhs))
        /\ Exhausted => out = UnionOf(lhs, rhs)

\* An exhausted nnz_or_zip that yielded a Left, a Right and a Both, the
\* Right after the left side had ended.
C11_Witness ==
    /\ zip.kind = "or"
    /\ Exhausted
    /\ Len(out) = 3
    /\ out[1].tag = "Both"
    /\ out[2].tag = "Left"
    /\ out[3].tag = "Right"

\* Everything nnz_or_zip yields from m on.
RECURSIVE Drain(_)
Drain(m) ==
    LET r == NnzOrZipNext(m) IN
    IF r.item = None THEN <<>>
    ELSE <<r.item[1]>> \o Drain(NnzOrZip(r.left, r.right))

IsBoth(e) == e.tag = "Both"
BothsOf(s) == [k \in 1..Len(SelectSeq(s, IsBoth)) |-> SelectSeq(s, IsBoth)[k].val]

\* C12: for valid vectors a and b of equal dimension, nnz_zip yields the
\* triples (i, a[i], b[i]) of the coordinates stored in both, by ascending
\* coordinate, and nothing else; they are the Both elements of nnz_or_zip,
\* and there is none when no coordinate is stored in both.
C12_ZipYieldsCommonCoordinates ==
    zip.kind = "zip" =>
        /\ IsPrefix(out, IntersectionOf(lhs, rhs))
        /\ Exhausted =>
              /\ out = IntersectionOf(lhs, rhs)
              /\ out = BothsOf(Drain(NnzOrZip(Peekable(iter(lhs)), Peekable(iter(rhs)))))
              /\ Stored(lhs) \cap Stored(rhs) = {} => out = <<>>

\* An exhausted nnz_zip that yielded a triple after it had skipped a
\* coordinate of the left side and one of the right side.
C12_Witness ==
    /\ zip.kind = "zip"
    /\ Exhausted
    /\ Len(out) = 1
    /\ Stored(lhs) \ Stored(rhs) # {}
    /\ Stored(rhs) \ Stored(lhs) # {}
    /\ \A i \in Stored(lhs) \cup Stored(rhs) : i <= out[1][1]

RECURSIVE SumProducts(_, _, _)
SumProducts(a, b, S) ==
    IF S = {} THEN 0
    ELSE LET i == CHOOSE x \in S : TRUE
         IN  ValueAt(a, i) * ValueAt(b, i) + SumProducts(a, b, S \ {i})

\* C13: for valid vectors a and b of equal dimension, a.dot(b) is the sum
\* of a[i] * b[i] over the coordinates stored in both, and zero when there
\* is none.
C13_DotIsSumOverCommon ==
    (last.op = "dot" /\ last.outcome = "ok") =>
        /\ last.ret = <<SumProducts(lhs, rhs, Stored(lhs) \cap Stored(rhs))>>
        /\ Stored(lhs) \cap Stored(rhs) = {} => last.ret = <<0>>

\* A dot product over two common coordinates with different products.
C13_Witness ==
    /\ last.op = "dot"
    /\ last.outcome = "ok"
    /\ lhs.indices = <<0, 2>>
    /\ rhs.indices = <<0, 2>>
    /\ lhs.data = <<1, 2>>
    /\ rhs.data = <<2, 2>>
    /\ last.ret = <<6>>

\* C14: for valid vectors a and b of equal dimension, a.dot(b) = b.dot(a).
C14_DotCommutes ==
    (last.op = "dot" /\ last.outcome = "ok") => last.ret = <<DotOf(rhs, lhs)>>

\* A non-zero dot product of two vectors that store different coordinates,
\* the first coordinate of the right one below the first of the left one.
C14_Witness ==
    /\ last.op = "dot"
    /\ last.outcome = "ok"
    /\ last.ret # <<0>>
    /\ Len(lhs.indices) = 1
    /\ Len(rhs.indices) = 2
    /\ rhs.indices[1] < lhs.indices[1]

\* C15: on two vectors whose declared dimensions differ, nnz_zip,
\* nnz_or_zip and dot panic at the call: no iterator is returned, no
\* element is yielded and no value is returned, whatever is stored.
C15_DimMismatchPanics ==
    lhs.dim # rhs.dim =>
        /\ zip = NoZip
        /\ out = <<>>
        /\ last # NoCall =>
              /\ last.op \in {"nnz_zip", "nnz_or_zip", "dot"}
              /\ last.outcome = "panic"
              /\ last.ret = <<>>

\* nnz_zip has panicked on two empty vectors of different dimensions.
C15_Witness ==
    /\ last = Call("nnz_zip", "panic", <<>>, <<>>)
    /\ lhs.dim # rhs.dim
    /\ lhs.indices = <<>>
    /\ rhs.indices = <<>>

\* ------------------------------------------------------ DStack claims
\* Number of occupied recursion slots.
RecCount == IF rec_head = None THEN 0 ELSE rec_head[1] + 1
\* The recursion region, oldest value first.
RecRegion == SubSeq(stacks, 1, RecCount)
\* The payloads of the data region, oldest value first (highest slot first).
DataRegion == [k \in 1..len_data |-> At(stacks, Len(stacks) - k).val]
IsPushCall(c) == c.op \in {"push_rec", "push_data"}

\* C6: after with_capacity(n) and any successful calls, the regions are
\* disjoint: rec_head < out_head when the recursion region is non-empty,
\* out_head <= n, recursion slots plus data slots are at most n, and
\* capacity() is n.
C6_RegionsDisjoint ==
    (StackUsable /\ hist.ctor = "with_capacity") =>
        /\ (rec_head # None => rec_head[1] < out_head)
        /\ out_head <= hist.n
        /\ RecCount + len_data <= hist.n
        /\ Len(absRec) + Len(absData) <= hist.n
        /\ capacity = hist.n

\* Both regions hold values and every slot is occupied.
C6_Witness ==
    /\ StackUsable
    /\ rec_head # None
    /\ len_data > 0
    /\ RecCount + len_data = capacity

\* C7: push_rec and push_data succeed exactly when recursion slots plus data
\* slots were fewer than n before the call, and panic otherwise.
C7_PushStep ==
    IsPushCall(last') =>
        /\ (last'.outcome = "ok") <=> (RecCount + len_data < capacity)
        /\ (last'.outcome = "panic") <=> (RecCount + len_data >= capacity)

C8_FailedPushStep ==
    (IsPushCall(last') /\ last'.outcome = "panic") =>
        (rec_head' = rec_head /\ out_head' = out_head /\ stacks' = stacks)

C8_FailedPushChangesNothing == [][C8_FailedPushStep]_vars

\* C9: the stack is two independent LIFO stacks: a pop returns the value
\* most recently pushed on its region and not yet popped (pop_rec with its
\* tag), a pop on an empty region returns None and changes nothing, and a
\* call on one region leaves the contents and order of the other.
C9_LifoStep ==
    /\ (last'.op = "pop_rec") =>
          /\ last'.ret = IF absRec = <<>> THEN None ELSE Some(LastOf(absRec))
          /\ absRec = <<>> => UNCHANGED <<stacks, rec_head, out_head>>
          /\ RecRegion' = Front(RecRegion)
          /\ DataRegion' = DataRegion
    /\ (last'.op = "pop_data") =>
          /\ last'.outcome = "ok"
          /\ last'.ret = IF absData = <<>> THEN None ELSE Some(LastOf(absData))
          /\ absData = <<>> => UNCHANGED <<stacks, rec_head, out_head>>
          /\ DataRegion' = Front(DataRegion)
          /\ RecRegion' = RecRegion
    /\ (last'.op = "push_rec" /\ last'.outcome = "ok") =>
          /\ RecRegion' = Append(RecRegion, last'.arg[1])
          /\ DataRegion' = DataRegion
    /\ (last'.op = "push_data" /\ last'.outcome = "ok") =>
          /\ DataRegion' = Append(DataRegion, last'.arg[1])
          /\ RecRegion' = RecRegion
    /\ StackUsable' => (RecRegion' = absRec' /\ DataRegion' = absData')

C9_TwoIndependentLifo == [][C9_LifoStep]_vars

\* pop_rec has returned an Exit-tagged value pushed after an Enter-tagged
\* one that is still on the recursion region, beside a non-empty data region.
C9_Witness ==
    /\ last.op = "pop_rec"
    /\ last.ret = Some(Exit(1))
    /\ absRec = <<Enter(0)>>
    /\ Len(absData) >= 1

\* C10 as claimed: iter_data yields the len_data() values of the data region
\* with the most recently pushed value last, changes nothing, and yields the
\* same when called again.
C10_IterStepNewestLast ==
    (last'.op = "iter_data") =>
        /\ last'.ret = absData
        /\ Len(last'.ret) = len_data
        /\ UNCHANGED <<stacks, rec_head, out_head>>
        /\ last.op = "iter_data" => last'.ret = last.ret

C10_IterNewestLast == [][C10_IterStepNewestLast]_vars

\* C10, amended: iter_data yields the len_data() values of the data region,
\* each once, with the most recently pushed value first and the oldest
\* last, changes nothing, and yields the same when called again.
C10_IterStepNewestFirst ==
    (last'.op = "iter_data") =>
        /\ last'.ret = Reverse(absData)
        /\ Len(last'.ret) = len_data
        /\ UNCHANGED <<stacks, rec_head, out_head>>
        /\ last.op = "iter_data" => last'.ret = last.ret

C10_IterNewestFirst == [][C10_IterStepNewestFirst]_vars

\* iter_data has walked a data region of two different values, pushed 0
\* first and 1 second, beside a non-empty recursion region.
C10_Witness ==
    /\ last.op = "iter_data"
    /\ absData = <<0, 1>>
    /\ last.ret = <<1, 0>>
    /\ rec_head # None

\* C17: clear_data leaves the data region empty (len_data() = 0,
\* is_data_empty(), a pop_data that follows returns None) and the
\* recursion region as it was: rec_head and the values pop_rec will return.
C17_ClearDataStep ==
    /\ last'.op = "clear_data" =>
          /\ len_data' = 0
          /\ is_data_empty'
          /\ out_head' >= Len(stacks')
          /\ rec_head' = rec_head
          /\ RecRegion' = RecRegion
          /\ absRec' = absRec
    /\ (last.op = "clear_data" /\ last'.op = "pop_data") =>
          (last'.ret = None /\ UNCHANGED stackVars)

C17_ClearDataFrame == [][C17_ClearDataStep]_vars

\* clear_data has returned on a stack of capacity 3 whose recursion region
\* holds two values and whose top slot was written with payload 1.
C17_Witness ==
    /\ last.op = "clear_data"
    /\ absRec = <<Exit(1), Enter(0)>>
    /\ RecRegion = absRec
    /\ At(stacks, Len(stacks) - 1) = Enter(1)
    /\ Len(stacks) = 3

\* C18: in every state of a DStack, len_data() is the number of push_data
\* calls that succeeded minus the number of pop_data calls that returned a
\* value since the last clear_data; push_rec and pop_rec leave it as it
\* was; is_data_empty() holds exactly when it is 0.
C18_LenDataStep ==
    /\ alive => len_data = Len(absData)
    /\ alive' => len_data' = Len(absData')
    /\ alive' => (is_data_empty' <=> (len_data' = 0))
    /\ last'.op \in {"push_rec", "pop_rec"} => len_data' = len_data

C18_LenDataCounts == [][C18_LenDataStep]_vars

\* The slots of the data region all hold an Enter-tagged value.
DataRegionIsEnter ==
    \A i \in out_head..(Len(stacks) - 1) : At(stacks, i).tag = "Enter"

\* C21: in every state reached by successful calls, every slot of the data
\* region (out_head..n) holds an Enter-tagged value, whatever push_rec has
\* written to the slots outside it; a pop_data never panics.
C21_DataRegionStep ==
    /\ StackUsable => DataRegionIsEnter
    /\ StackUsable' => DataRegionIsEnter'
    /\ last'.op = "pop_data" => last'.outcome = "ok"

C21_DataRegionIsEnter == [][C21_DataRegionStep]_vars

\* pop_data has returned a value from a data region that still holds one,
\* while a free slot holds an Exit-tagged value left there by a push_rec
\* since popped.
C21_Witness ==
    /\ last.op = "pop_data"
    /\ last.ret # None
    /\ rec_head = None
    /\ Len(stacks) = 4
    /\ out_head = 3
    /\ At(stacks, 1).tag = "Exit"

\* The items a peekable side has not handed out yet: those of its iterator
\* and the one it has peeked.
Pending(p) ==
    Len(p.iter.ind_data) + (IF p.peeked # None /\ p.peeked # Some(None) THEN 1 ELSE 0)
PendingBoth == Pending(zip.left) + Pending(zip.right)

C22_ConsumeStep ==
    (zip.kind = "or" /\ last'.op = "next") =>
        /\ last'.ret # None =>
              /\ PendingBoth' < PendingBoth
              /\ Len(out') = Len(out) + 1
        /\ Exhausted => (last'.ret = None /\ out' = out)
        /\ Len(out') + PendingBoth' <= nnz(lhs) + nnz(rhs)
        /\ PendingBoth = 0 => last'.ret = None
        /\ Len(UnionOf(lhs, rhs)) - Len(out) >= size_hint(NnzOrZip(zip.left, zip.right))[1]
        /\ Len(UnionOf(lhs, rhs)) - Len(out) <= size_hint(NnzOrZip(zip.left, zip.right))[2][1]

\* C22: the union merge terminates.  Every next() of nnz_or_zip that
\* returns an element takes at least one pending item from the left or the
\* right side, so the elements yielded and the items pending never exceed
\* p + q, the numbers of stored non-zeros; a caller that keeps calling
\* next() gets None, and every next() after a None returns None.
C22_UnionMergeTerminates ==
    /\ [][C22_ConsumeStep]_vars
    /\ (zip.kind = "or") ~> (zip.kind = "or" /\ Exhausted)

\* nnz_or_zip has returned None after p + q = 3 elements, no coordinate
\* being stored on both sides.
C22_Witness ==
    /\ zip.kind = "or"
    /\ Exhausted
    /\ zip.left.peeked = Some(None)
    /\ zip.right.peeked = Some(None)
    /\ Len(out) = 3
    /\ nnz(lhs) = 2
    /\ nnz(rhs) = 1

====
